---------------------------- MODULE Spec2Model ----------------------------
(***************************************************************************)
(* A model of src/index.js: the schema inferrer (getDataType), the catalog *)
(* loader (updateKEVCatalogFromCSV), the credential store (api_keys) and   *)
(* the auth gate (verifyApiKey) in front of the route handlers.            *)
(*                                                                         *)
(* The specifications share the variables:                                 *)
(*   SpecInfer          getDataType and the CREATE TABLE column list       *)
(*   SpecAuth           concurrent HTTP requests through verifyApiKey      *)
(*   SpecRefresh        concurrent runs of updateKEVCatalogFromCSV         *)
(*   SpecRefreshInTurn  runs of updateKEVCatalogFromCSV one after another  *)
(* A text value is a sequence of one-character strings, so that trimming  *)
(* and the regular expressions of getDataType are computed, not assumed.   *)
(***************************************************************************)
EXTENDS Integers, Sequences, FiniteSets, TLC

VARIABLES
    sampleValue,    \* SpecInfer: the argument last given to getDataType
    dataType,       \* SpecInfer: what getDataType returned for it
    schemaRecords,  \* SpecInfer: the parsed records a column list was built from
    schemaColumns,  \* SpecInfer: that column list
    api_keys,       \* the api_keys table: a set of rows
    arrived,        \* number of requests received so far
    req,            \* per request slot: the request and where its handling stands
    KEV_Catalog,    \* the KEV_Catalog table: absent, or columns and rows
    tempFile,       \* temp/kev_catalog.csv: absent, or the feed text it holds
    started,        \* number of refreshes started so far
    run             \* per refresh: position and locals of updateKEVCatalogFromCSV

vars == <<sampleValue, dataType, schemaRecords, schemaColumns,
          api_keys, arrived, req,
          KEV_Catalog, tempFile, started, run>>

inferVars == <<sampleValue, dataType, schemaRecords, schemaColumns>>
authVars == <<api_keys, arrived, req>>
refreshVars == <<KEV_Catalog, tempFile, started, run>>

(***************************************************************************)
(* Text                                                                    *)
(***************************************************************************)

\* Longest sample text given to getDataType.
MaxLen == 5

Alphabet == {"1", ".", "a", " ", "-"}

Texts == UNION {[1..k -> Alphabet] : k \in 0..MaxLen}

\* JavaScript's undefined: a missing header, parameter or field.  (A text
\* that no sequence of characters equals.)
Undefined == <<"undefined">>

\* JavaScript's null, stored as SQL NULL.
Null == <<"null">>

\* \d of a JavaScript regular expression.
Digit == {"0", "1", "2", "3", "4", "5", "6", "7", "8", "9"}

\* What String.prototype.trim removes.
WhiteSpace == {" ", "\t", "\n", "\r"}

SetMin(S) == CHOOSE x \in S : \A y \in S : x <= y

SetMax(S) == CHOOSE x \in S : \A y \in S : y <= x

\* s.trim()
Trim(s) ==
    LET keep == {i \in 1..Len(s) : s[i] \notin WhiteSpace}
    IN  IF keep = {} THEN <<>> ELSE SubSeq(s, SetMin(keep), SetMax(keep))

\* /^\d+$/.test(t)
IsIntegerText(t) ==
    /\ Len(t) >= 1
    /\ \A i \in 1..Len(t) : t[i] \in Digit

\* /^\d*\.\d+$/.test(t)
IsFloatText(t) ==
    \E d \in 1..Len(t) :
        /\ t[d] = "."
        /\ \A i \in 1..(d - 1) : t[i] \in Digit
        /\ d < Len(t)
        /\ \A i \in (d + 1)..Len(t) : t[i] \in Digit

\* A mutant of getDataType: the sample is tested without being trimmed.
getDataTypeUntrimmed(value) ==
    IF value = Undefined \/ value = <<>> \/ Trim(value) = <<>> THEN "TEXT"
    ELSE IF IsIntegerText(value) THEN "INT"
    ELSE IF IsFloatText(value) THEN "FLOAT"
    ELSE "TEXT"

\* getDataType: the SQL type of a column, from one sample value.
getDataType(value) ==
    IF value = Undefined \/ value = <<>> \/ Trim(value) = <<>> THEN "TEXT"
    ELSE IF IsIntegerText(Trim(value)) THEN "INT"
    ELSE IF IsFloatText(Trim(value)) THEN "FLOAT"
    ELSE "TEXT"

\* The column definitions of createTableQuery: one per header, in header
\* order, typed from records[0].
CreateTableColumns(headers, records) ==
    [i \in 1..Len(headers) |->
        [name |-> headers[i], type |-> getDataType(records[1][headers[i]])]]

\* The values a later record may hold in the column being typed.
LaterValues == {<<"a">>, <<"1">>, <<>>}

\* The call getDataType(sampleValue).
CallGetDataType ==
    /\ dataType = "none"
    /\ dataType' = getDataType(sampleValue)
    /\ UNCHANGED <<sampleValue, schemaRecords, schemaColumns>>
    /\ UNCHANGED <<authVars, refreshVars>>

\* The headers.forEach of updateKEVCatalogFromCSV on two records: the first
\* holds the sample as the parser hands it over (trimmed), the second any
\* later value.
BuildSchema ==
    /\ sampleValue # Undefined
    /\ \E later \in LaterValues :
          /\ schemaRecords' = << [cveID |-> Trim(sampleValue)], [cveID |-> later] >>
          /\ schemaColumns' = CreateTableColumns(<<"cveID">>, schemaRecords')
    /\ UNCHANGED <<sampleValue, dataType>>
    /\ UNCHANGED <<authVars, refreshVars>>

(***************************************************************************)
(* The feed and csv-parse                                                  *)
(***************************************************************************)

\* The documents KEV_URL may serve: a header line and the lines after it,
\* each line a sequence of cells, a blank line the empty sequence.
FeedNames == {"A", "B", "C", "E", "M"}

Feed(f) ==
    CASE f = "A" -> [header |-> <<"cveID", "vendorProject">>,
                     lines  |-> << <<(<<"a">>), <<" ", "a">> >>,
                                   <<(<<"a", "1">>), (<<" ">>) >> >>]
      [] f = "B" -> [header |-> <<"cveID", "vendorProject">>,
                     lines  |-> << <<(<<"a">>), (<<"1">>) >> >>]
      [] f = "C" -> [header |-> <<"cveID">>,
                     lines  |-> << <<>>, <<(<<"a", "1">>) >> >>]
      [] f = "E" -> [header |-> <<"cveID", "vendorProject">>,
                     lines  |-> << <<>> >>]
      [] f = "M" -> [header |-> <<"cveID", "vendorProject">>,
                     lines  |-> << <<(<<"a">>) >> >>]

Range(s) == {s[i] : i \in DOMAIN s}

IsBlankLine(line) == line = <<>>

\* parse(csvContent, {columns: true, skip_empty_lines: true, trim: true}):
\* blank lines are skipped, a line whose cell count differs from the
\* header's throws, every other line is a record keyed by the header names,
\* its values trimmed.
Parse(csvContent) ==
    LET header == csvContent.header
        data   == SelectSeq(csvContent.lines, LAMBDA l : ~IsBlankLine(l))
        index(h) == CHOOSE i \in 1..Len(header) : header[i] = h
    IN  IF \E k \in 1..Len(data) : Len(data[k]) # Len(header)
        THEN [ok |-> FALSE, headers |-> header, records |-> <<>>]
        ELSE [ok |-> TRUE,
              headers |-> header,
              records |-> [k \in 1..Len(data) |->
                              [h \in Range(header) |-> Trim(data[k][index(h)])]]]

(***************************************************************************)
(* The KEV_Catalog table and the statements run on it                      *)
(***************************************************************************)

NoTable == [exists |-> FALSE, columns |-> <<>>, rows |-> <<>>]

ColumnNames(table) == {table.columns[i].name : i \in 1..Len(table.columns)}

ColumnType(table, c) ==
    table.columns[CHOOSE i \in 1..Len(table.columns) : table.columns[i].name = c].type

\* CREATE TABLE IF NOT EXISTS KEV_Catalog (...): nothing when the table exists.
ExecCreateTable(table, columns) ==
    IF table.exists THEN table
    ELSE [exists |-> TRUE, columns |-> columns, rows |-> <<>>]

\* TRUNCATE TABLE KEV_Catalog
ExecTruncate(table) == [table EXCEPT !.rows = <<>>]

\* headers.map(header => record[header] || null): an empty value becomes null.
InsertValues(headers, record) ==
    [h \in Range(headers) |-> IF record[h] = <<>> THEN Null ELSE record[h]]

\* Whether a column of the given type stores the value (strict SQL mode:
\* a text that is no number is refused by a numeric column).
Storable(value, type) ==
    \/ value = Null
    \/ type = "TEXT"
    \/ IsIntegerText(value)
    \/ IsFloatText(value)

\* Whether INSERT INTO KEV_Catalog (headers) VALUES (values) is accepted:
\* every named column exists and stores its value.
InsertAccepted(table, headers, values) ==
    /\ table.exists
    /\ Range(headers) \subseteq ColumnNames(table)
    /\ \A h \in Range(headers) : Storable(values[h], ColumnType(table, h))

\* The table after the INSERT: one more row, columns not named are NULL.
ExecInsert(table, headers, values) ==
    [table EXCEPT !.rows =
        Append(@, [c \in ColumnNames(table) |->
                       IF c \in Range(headers) THEN values[c] ELSE Null])]

\* SELECT COUNT(cveID) as count FROM KEV_Catalog: the rows whose cveID is
\* not NULL; -1 stands for the statement's error (no table, no such column).
CountQuery(table) ==
    IF table.exists /\ "cveID" \in ColumnNames(table)
    THEN Cardinality({i \in 1..Len(table.rows) : table.rows[i]["cveID"] # Null})
    ELSE -1

(***************************************************************************)
(* updateKEVCatalogFromCSV, as run by the handler of POST /update-kev      *)
(***************************************************************************)

\* Refreshes started in one behaviour.
MaxRefreshes == 2

\* The requests to POST /update-kev that may be in progress together.
Runs == {"u1", "u2"}

NoFile == "none"

NoDataError == "No data found in CSV file"

IdleRun == [pc |-> "idle", feed |-> NoFile, index |-> 0, statements |-> 0,
            error |-> "", recordCount |-> 0, prior |-> NoTable]

\* const records = parse(csvContent, ...) of the run's feed.
Records(r) == Parse(Feed(r.feed)).records

\* const headers = Object.keys(records[0])
Headers(r) == Parse(Feed(r.feed)).headers

\* catch (error) { throw error }: the run ends with the error.
Throw(p, error) ==
    run' = [run EXCEPT ![p].pc = "failed", ![p].error = error]

\* app.post("/update-kev"): the handler calls updateKEVCatalogFromCSV.
StartRefresh(p) ==
    /\ run[p].pc = "idle"
    /\ started < MaxRefreshes
    /\ started' = started + 1
    /\ run' = [run EXCEPT ![p] = [IdleRun EXCEPT !.pc = "download",
                                                 !.prior = KEV_Catalog]]
    /\ UNCHANGED <<KEV_Catalog, tempFile>>
    /\ UNCHANGED <<inferVars, authVars>>

\* downloadCSV: the response body is written to the temp file.
DownloadCSV(p) ==
    /\ run[p].pc = "download"
    /\ \E f \in FeedNames : tempFile' = f
    /\ run' = [run EXCEPT ![p].pc = "read"]
    /\ UNCHANGED <<KEV_Catalog, started>>
    /\ UNCHANGED <<inferVars, authVars>>

\* downloadCSV rejects: the request, the response or the write failed.
DownloadFails(p) ==
    /\ run[p].pc = "download"
    /\ Throw(p, "download")
    /\ UNCHANGED <<KEV_Catalog, tempFile, started>>
    /\ UNCHANGED <<inferVars, authVars>>

\* A mutant of ReadAndParse: the table is emptied before records.length is
\* checked.
ReadAndParseTruncateFirst(p) ==
    /\ run[p].pc = "read"
    /\ IF tempFile = NoFile
       THEN Throw(p, "ENOENT") /\ UNCHANGED KEV_Catalog
       ELSE LET parsed == Parse(Feed(tempFile))
            IN  IF ~parsed.ok THEN Throw(p, "parse") /\ UNCHANGED KEV_Catalog
                ELSE IF Len(parsed.records) = 0
                THEN Throw(p, NoDataError) /\ KEV_Catalog' = ExecTruncate(KEV_Catalog)
                ELSE /\ run' = [run EXCEPT ![p].pc = "create", ![p].feed = tempFile]
                     /\ UNCHANGED KEV_Catalog
    /\ UNCHANGED <<tempFile, started>>
    /\ UNCHANGED <<inferVars, authVars>>

\* fs.readFile, parse, and the check of records.length.
ReadAndParse(p) ==
    /\ run[p].pc = "read"
    /\ IF tempFile = NoFile
       THEN Throw(p, "ENOENT")
       ELSE LET parsed == Parse(Feed(tempFile))
            IN  IF ~parsed.ok THEN Throw(p, "parse")
                ELSE IF Len(parsed.records) = 0 THEN Throw(p, NoDataError)
                ELSE run' = [run EXCEPT ![p].pc = "create", ![p].feed = tempFile]
    /\ UNCHANGED <<KEV_Catalog, tempFile, started>>
    /\ UNCHANGED <<inferVars, authVars>>

\* await db.execute(createTableQuery)
CreateTable(p) ==
    /\ run[p].pc = "create"
    /\ \E fault \in BOOLEAN :
          IF fault
          THEN Throw(p, "store") /\ UNCHANGED KEV_Catalog
          ELSE /\ KEV_Catalog' = ExecCreateTable(KEV_Catalog,
                      CreateTableColumns(Headers(run[p]), Records(run[p])))
               /\ run' = [run EXCEPT ![p].pc = "truncate",
                                     ![p].statements = @ + 1]
    /\ UNCHANGED <<tempFile, started>>
    /\ UNCHANGED <<inferVars, authVars>>

\* await db.execute("TRUNCATE TABLE KEV_Catalog")
TruncateTable(p) ==
    /\ run[p].pc = "truncate"
    /\ \E fault \in BOOLEAN :
          IF fault \/ ~KEV_Catalog.exists
          THEN Throw(p, "store") /\ UNCHANGED KEV_Catalog
          ELSE /\ KEV_Catalog' = ExecTruncate(KEV_Catalog)
               /\ run' = [run EXCEPT ![p].pc = "insert", ![p].index = 1,
                                     ![p].statements = @ + 1]
    /\ UNCHANGED <<tempFile, started>>
    /\ UNCHANGED <<inferVars, authVars>>

\* One turn of for (const record of records): await db.execute(insertQuery, values)
InsertRecord(p) ==
    /\ run[p].pc = "insert"
    /\ LET headers == Headers(run[p])
           records == Records(run[p])
           values  == InsertValues(headers, records[run[p].index])
       IN  \E fault \in BOOLEAN :
             IF fault \/ ~InsertAccepted(KEV_Catalog, headers, values)
             THEN Throw(p, "store") /\ UNCHANGED KEV_Catalog
             ELSE /\ KEV_Catalog' = ExecInsert(KEV_Catalog, headers, values)
                  /\ run' = [run EXCEPT
                         ![p].pc = IF run[p].index = Len(records)
                                   THEN "unlink" ELSE "insert",
                         ![p].index = @ + 1,
                         ![p].statements = @ + 1]
    /\ UNCHANGED <<tempFile, started>>
    /\ UNCHANGED <<inferVars, authVars>>

\* await fs.unlink(filePath).catch(() => {}), then
\* return { success: true, recordCount: records.length }
UnlinkAndReturn(p) ==
    /\ run[p].pc = "unlink"
    /\ tempFile' = NoFile
    /\ run' = [run EXCEPT ![p].pc = "done",
                          ![p].recordCount = Len(Records(run[p]))]
    /\ UNCHANGED <<KEV_Catalog, started>>
    /\ UNCHANGED <<inferVars, authVars>>

\* The handler of POST /update-kev answers (200 or 500) and the request ends.
FinishRefresh(p) ==
    /\ run[p].pc \in {"done", "failed"}
    /\ run' = [run EXCEPT ![p] = IdleRun]
    /\ UNCHANGED <<KEV_Catalog, tempFile, started>>
    /\ UNCHANGED <<inferVars, authVars>>

(***************************************************************************)
(* The api_keys table, verifyApiKey and the routes                         *)
(***************************************************************************)

\* Requests received in one behaviour.
MaxRequests == 2

\* The last value of the store's clock.
MaxClock == 1

\* The requests that may be in progress together; a request takes the
\* first free slot.
Slots == {"q1", "q2"}

FirstFree(q) == q = "q1" \/ req["q1"].pc # "idle"

\* Keys are texts; two keys differ in at least one character.
K1 == <<"a", "1">>

K2 == <<"b", "2">>

K3 == <<"a", "3">>

K4 == <<"a", "2">>

\* What generateApiKey may return.
KeySpace == {K1, K2, K3, K4}

AppNames == {<<"x">>, <<"y">>}

\* last_used TIMESTAMP NULL
NullTime == -1

\* The values CURRENT_TIMESTAMP may have: the store's clock never runs
\* behind a timestamp it has written.
CurrentTimestamps(table) ==
    {t \in 0..MaxClock :
        \A k \in table : t >= k.created_at /\ t >= k.last_used}

\* Rows the table holds when the server starts (CREATE TABLE IF NOT EXISTS
\* keeps them): two active keys of different applications and an inactive
\* key of the first application.
StoredKeys ==
    { [api_key |-> K1, app_name |-> <<"x">>, created_at |-> 0,
       last_used |-> NullTime, is_active |-> TRUE],
      [api_key |-> K2, app_name |-> <<"y">>, created_at |-> 0,
       last_used |-> 0, is_active |-> TRUE],
      [api_key |-> K3, app_name |-> <<"x">>, created_at |-> 0,
       last_used |-> NullTime, is_active |-> FALSE] }

Endpoints == {"POST /api-keys", "POST /update-kev", "GET /cve", "GET /",
              "GET /count", "GET /cve/:cveID", "GET /:vendor"}

\* The middleware each route is registered with.
Middleware(endpoint) ==
    IF endpoint = "POST /api-keys" THEN <<>> ELSE <<"verifyApiKey">>

\* The handler each route is registered with: the key issuer, the refresh,
\* or one of the five SELECT handlers, which differ only in their query.
HandlerOf(endpoint) ==
    CASE endpoint = "POST /api-keys" -> "issueKey"
      [] endpoint = "POST /update-kev" -> "updateKEV"
      [] OTHER -> "select"

\* JavaScript truthiness of a text or undefined.
Truthy(x) == x # Undefined /\ x # <<>>

\* a || b
OrElse(a, b) == IF Truthy(a) THEN a ELSE b

NoRow == [api_key |-> <<>>, app_name |-> <<>>, created_at |-> 0,
          last_used |-> NullTime, is_active |-> FALSE]

IdleRequest == [pc |-> "idle", handler |-> "", apiKey |-> Undefined,
                appName |-> Undefined, status |-> 0, body |-> "",
                rows |-> NoRow, application |-> NoRow, error |-> "", dbOps |-> 0,
                handlerRan |-> FALSE]

\* A mutant of SelectActive: the lookup without AND is_active = TRUE.
SelectAnyStatus(table, key, app) ==
    {k \in table : k.api_key = key /\ k.app_name = app}

\* SELECT * FROM api_keys WHERE api_key = ? AND is_active = TRUE AND app_name = ?
\* (texts compared character by character).
SelectActive(table, key, app) ==
    {k \in table : k.api_key = key /\ k.is_active /\ k.app_name = app}

\* A mutant of UpdateLastUsedRows: the update without api_key = ?.
UpdateByAppName(table, key, app, time) ==
    {IF k.app_name = app THEN [k EXCEPT !.last_used = time] ELSE k : k \in table}

\* UPDATE api_keys SET last_used = CURRENT_TIMESTAMP WHERE api_key = ? AND app_name = ?
UpdateLastUsedRows(table, key, app, time) ==
    {IF k.api_key = key /\ k.app_name = app
     THEN [k EXCEPT !.last_used = time] ELSE k : k \in table}

\* res.status(status).json(body): the request is answered.
Respond(r, status, body, error) ==
    [r EXCEPT !.pc = "done", !.status = status, !.body = body, !.error = error]

\* A request arrives and is routed.  A route registered with verifyApiKey
\* runs it up to its first await: the key and the application name are
\* read, a missing key is answered 401.  A route without middleware goes to
\* its handler.
Receive(q) ==
    /\ req[q].pc = "idle"
    /\ FirstFree(q)
    /\ arrived < MaxRequests
    /\ arrived' = arrived + 1
    /\ \E endpoint \in Endpoints,
          headerKey \in KeySpace \cup {Undefined},
          queryKey \in {K1, <<>>, Undefined},
          headerApp \in AppNames \cup {Undefined},
          queryApp \in {<<"y">>, Undefined},
          bodyApp \in {<<"x">>, Undefined} :
          LET r == [IdleRequest EXCEPT !.handler = HandlerOf(endpoint)]
          IN  IF Middleware(endpoint) = <<>>
              THEN req' = [req EXCEPT ![q] =
                              [r EXCEPT !.pc = "handler", !.appName = headerApp]]
              ELSE LET apiKey  == OrElse(headerKey, queryKey)
                       appName == OrElse(OrElse(headerApp, queryApp), bodyApp)
                       v == [r EXCEPT !.apiKey = apiKey, !.appName = appName]
                   IN  IF ~Truthy(apiKey)
                       THEN req' = [req EXCEPT ![q] =
                                Respond(v, 401, "API key is required", "")]
                       ELSE req' = [req EXCEPT ![q] = [v EXCEPT !.pc = "lookup"]]
    /\ UNCHANGED api_keys
    /\ UNCHANGED <<inferVars, refreshVars>>

\* The SELECT of verifyApiKey.  db.execute throws on an undefined bind
\* parameter before anything is sent to the store; the store may fail; no
\* row is answered 401.
Lookup(q) ==
    /\ req[q].pc = "lookup"
    /\ LET r == req[q]
       IN  IF r.appName = Undefined
           THEN req' = [req EXCEPT ![q] =
                    Respond(r, 500, "Failed to authenticate API key", "bind")]
           ELSE \E fault \in BOOLEAN :
                  LET sent == [r EXCEPT !.dbOps = @ + 1]
                      rows == SelectActive(api_keys, r.apiKey, r.appName)
                  IN  IF fault
                      THEN req' = [req EXCEPT ![q] =
                               Respond(sent, 500, "Failed to authenticate API key", "store")]
                      ELSE IF rows = {}
                      THEN req' = [req EXCEPT ![q] =
                               Respond(sent, 401, "Invalid API key", "")]
                      ELSE req' = [req EXCEPT ![q] =
                               [sent EXCEPT !.pc = "update",
                                            !.rows = CHOOSE k \in rows : TRUE]]
    /\ UNCHANGED <<api_keys, arrived>>
    /\ UNCHANGED <<inferVars, refreshVars>>

\* A mutant of UpdateLastUsed: a failed UPDATE is ignored and next() is called.
UpdateLastUsedIgnoringFailure(q) ==
    /\ req[q].pc = "update"
    /\ LET r == [req[q] EXCEPT !.dbOps = @ + 1]
       IN  \E fault \in BOOLEAN, now \in CurrentTimestamps(api_keys) :
             IF fault
             THEN /\ req' = [req EXCEPT ![q] =
                        [r EXCEPT !.pc = "handler", !.error = "store",
                                  !.application = r.rows]]
                  /\ UNCHANGED api_keys
             ELSE /\ api_keys' = UpdateLastUsedRows(api_keys, r.apiKey, r.appName, now)
                  /\ req' = [req EXCEPT ![q] =
                        [r EXCEPT !.pc = "handler", !.application = r.rows]]
    /\ UNCHANGED arrived
    /\ UNCHANGED <<inferVars, refreshVars>>

\* The UPDATE of verifyApiKey, then req.application = rows[0] and next().
UpdateLastUsed(q) ==
    /\ req[q].pc = "update"
    /\ LET r == [req[q] EXCEPT !.dbOps = @ + 1]
       IN  \E fault \in BOOLEAN, now \in CurrentTimestamps(api_keys) :
             IF fault
             THEN /\ req' = [req EXCEPT ![q] =
                        Respond(r, 500, "Failed to authenticate API key", "store")]
                  /\ UNCHANGED api_keys
             ELSE /\ api_keys' = UpdateLastUsedRows(api_keys, r.apiKey, r.appName, now)
                  /\ req' = [req EXCEPT ![q] =
                        [r EXCEPT !.pc = "handler", !.application = r.rows]]
    /\ UNCHANGED arrived
    /\ UNCHANGED <<inferVars, refreshVars>>

\* The handler of POST /api-keys: a generated key is inserted for the
\* app-name header.  An undefined header makes db.execute throw, a key
\* already stored violates UNIQUE, the store may fail: 500.
IssueKey(q) ==
    /\ req[q].pc = "handler"
    /\ req[q].handler = "issueKey"
    /\ LET r == [req[q] EXCEPT !.handlerRan = TRUE]
       IN  \E apiKey \in KeySpace, fault \in BOOLEAN,
              now \in CurrentTimestamps(api_keys) :
             IF r.appName = Undefined
             THEN /\ req' = [req EXCEPT ![q] = Respond(r, 500, "error.message", "bind")]
                  /\ UNCHANGED api_keys
             ELSE IF fault \/ \E k \in api_keys : k.api_key = apiKey
             THEN /\ req' = [req EXCEPT ![q] =
                        Respond([r EXCEPT !.dbOps = @ + 1], 500, "error.message", "store")]
                  /\ UNCHANGED api_keys
             ELSE /\ api_keys' = api_keys \cup
                        {[api_key |-> apiKey, app_name |-> r.appName,
                          created_at |-> now, last_used |-> NullTime,
                          is_active |-> TRUE]}
                  /\ req' = [req EXCEPT ![q] =
                        Respond([r EXCEPT !.dbOps = @ + 1, !.apiKey = apiKey],
                                201, "apiKey", "")]
    /\ UNCHANGED arrived
    /\ UNCHANGED <<inferVars, refreshVars>>

\* The handler of a protected route, up to its answer: 200 with the result
\* of its query or refresh, 500 with the message of its error.
ProtectedHandler(q) ==
    /\ req[q].pc = "handler"
    /\ req[q].handler \in {"updateKEV", "select"}
    /\ LET r == [req[q] EXCEPT !.handlerRan = TRUE, !.dbOps = @ + 1]
       IN  \E fault \in BOOLEAN :
             req' = [req EXCEPT ![q] =
                        IF fault THEN Respond(r, 500, "error.message", "handler")
                        ELSE Respond(r, 200, "result", "")]
    /\ UNCHANGED <<api_keys, arrived>>
    /\ UNCHANGED <<inferVars, refreshVars>>

\* The answered request leaves.
Finish(q) ==
    /\ req[q].pc = "done"
    /\ req' = [req EXCEPT ![q] = IdleRequest]
    /\ UNCHANGED <<api_keys, arrived>>
    /\ UNCHANGED <<inferVars, refreshVars>>

(***************************************************************************)
(* Specifications                                                          *)
(***************************************************************************)

Init ==
    /\ sampleValue = Undefined
    /\ dataType = "none"
    /\ schemaRecords = <<>>
    /\ schemaColumns = <<>>
    /\ api_keys = StoredKeys
    /\ arrived = 0
    /\ req = [r \in Slots |-> IdleRequest]
    /\ KEV_Catalog = NoTable
    /\ tempFile = NoFile
    /\ started = 0
    /\ run = [p \in Runs |-> IdleRun]

\* SpecInfer starts from any sample value getDataType may be given.
InitInfer ==
    /\ sampleValue \in Texts \cup {Undefined}
    /\ dataType = "none"
    /\ schemaRecords = <<>>
    /\ schemaColumns = <<>>
    /\ api_keys = StoredKeys
    /\ arrived = 0
    /\ req = [r \in Slots |-> IdleRequest]
    /\ KEV_Catalog = NoTable
    /\ tempFile = NoFile
    /\ started = 0
    /\ run = [p \in Runs |-> IdleRun]

NextInfer ==
    \/ CallGetDataType
    \/ BuildSchema

SpecInfer == InitInfer /\ [][NextInfer]_vars

NextAuth ==
    \E q \in Slots :
        \/ Receive(q)
        \/ Lookup(q)
        \/ UpdateLastUsed(q)
        \/ IssueKey(q)
        \/ ProtectedHandler(q)
        \/ Finish(q)

SpecAuth == Init /\ [][NextAuth]_vars

NextRefresh ==
    \E p \in Runs :
        \/ StartRefresh(p)
        \/ DownloadCSV(p)
        \/ DownloadFails(p)
        \/ ReadAndParse(p)
        \/ CreateTable(p)
        \/ TruncateTable(p)
        \/ InsertRecord(p)
        \/ UnlinkAndReturn(p)
        \/ FinishRefresh(p)

SpecRefresh == Init /\ [][NextRefresh]_vars

\* Refreshes requested one after another: a request to POST /update-kev
\* arrives only when no refresh is in progress.
StartRefreshAlone(p) ==
    /\ \A q \in Runs : run[q].pc = "idle"
    /\ StartRefresh(p)

NextRefreshInTurn ==
    \E p \in Runs :
        \/ StartRefreshAlone(p)
        \/ DownloadCSV(p)
        \/ DownloadFails(p)
        \/ ReadAndParse(p)
        \/ CreateTable(p)
        \/ TruncateTable(p)
        \/ InsertRecord(p)
        \/ UnlinkAndReturn(p)
        \/ FinishRefresh(p)

SpecRefreshInTurn == Init /\ [][NextRefreshInTurn]_vars

(***************************************************************************)
(* Properties of the schema inferrer                                       *)
(***************************************************************************)

DigitCount(t) == Cardinality({i \in 1..Len(t) : t[i] \in Digit})

DotCount(t) == Cardinality({i \in 1..Len(t) : t[i] = "."})

\* The type the specification gives a sample: INTEGER for digits only, FLOAT
\* for digits with one point that is not the last character, TEXT otherwise.
ClaimedType(value) ==
    IF value = Undefined THEN "TEXT"
    ELSE LET t == Trim(value)
         IN  IF Len(t) > 0 /\ DigitCount(t) = Len(t) THEN "INT"
             ELSE IF /\ DotCount(t) = 1
                     /\ DigitCount(t) = Len(t) - 1
                     /\ t[Len(t)] # "."
                  THEN "FLOAT"
             ELSE "TEXT"

\* C10: getDataType gives INT to every sample that is all digits once
\* trimmed, FLOAT to every sample that is digits, one point, digits (the
\* leading digits optional), TEXT to an empty, absent or blank sample and to
\* everything else ("abc", "12a", "1.", "1.2.3", "-5"); and a column of the
\* CREATE TABLE statement has the type of its value in the first record,
\* whatever the later records hold.
C10_InferType ==
    /\ dataType # "none" => dataType = ClaimedType(sampleValue)
    /\ schemaRecords # <<>> =>
          /\ Len(schemaColumns) = 1
          /\ schemaColumns[1].name = "cveID"
          /\ schemaColumns[1].type = ClaimedType(schemaRecords[1].cveID)
    /\ getDataType(<<"a", "b", "c">>) = "TEXT"
    /\ getDataType(<<"1", "2", "a">>) = "TEXT"
    /\ getDataType(<<"1", ".">>) = "TEXT"
    /\ getDataType(<<"1", ".", "2", ".", "3">>) = "TEXT"
    /\ getDataType(<<"-", "5">>) = "TEXT"
    /\ getDataType(<<"1", "2", "3">>) = "INT"
    /\ getDataType(<<"1", ".", "5">>) = "FLOAT"
    /\ getDataType(<<>>) = "TEXT"

\* An untrimmed sample typed FLOAT, and a column typed FLOAT from the first
\* record although the second record holds a text.
C10_Witness ==
    /\ dataType = "FLOAT"
    /\ sampleValue # Trim(sampleValue)
    /\ schemaRecords # <<>>
    /\ schemaColumns[1].type = "FLOAT"
    /\ schemaRecords[2].cveID = <<"a">>

(***************************************************************************)
(* Properties of the auth gate                                             *)
(***************************************************************************)

Protected(r) == r.handler \in {"updateKEV", "select"}

C7_LookupMissIs401 ==
    \A q \in Slots :
        ( /\ Protected(req[q])
          /\ req[q].pc = "done"
          /\ Truthy(req[q].apiKey)
          /\ req[q].error # "store"
          /\ SelectActive(api_keys, req[q].apiKey, req[q].appName) = {} )
        => req[q].status = 401 /\ req[q].body = "Invalid API key"

\* C8: a request with a valid key and name reaches its handler unless the
\* store fails, and a step changes a stored record only as the UPDATE of a
\* request presenting that record's key: its last_used, to a value not
\* less than before, every other record and field as they were.
C8_OnlyOwnTimestamp ==
    /\ [](\A q \in Slots :
            ( /\ Protected(req[q])
              /\ req[q].pc = "done"
              /\ req[q].error # "store"
              /\ SelectActive(StoredKeys, req[q].apiKey, req[q].appName) # {} )
            => req[q].handlerRan)
    /\ [][\A k \in api_keys :
            k \notin api_keys' =>
              \E q \in Slots, t \in 0..MaxClock :
                /\ req[q].pc = "update"
                /\ req'[q].pc = "handler"
                /\ req[q].apiKey = k.api_key
                /\ t >= k.last_used
                /\ api_keys' = (api_keys \ {k}) \cup {[k EXCEPT !.last_used = t]}]_vars

\* Two requests with the two valid keys are past verifyApiKey together, and
\* each key's record carries a new last_used.
C8_Witness ==
    /\ req["q1"].pc = "handler" /\ req["q2"].pc = "handler"
    /\ {req["q1"].apiKey, req["q2"].apiKey} = {K1, K2}
    /\ \A k \in api_keys : k.api_key \in {K1, K2} => k.last_used = MaxClock

\* C9: a request whose lookup or last_used update failed in the store is
\* answered 500, its handler is not run and no application record is
\* attached to it; a request without a key is answered 401 and nothing is
\* sent to the store.
C9_StoreErrorIs500 ==
    \A q \in Slots :
        /\ req[q].error = "store" /\ Protected(req[q]) =>
              /\ req[q].pc = "done"
              /\ req[q].status = 500
              /\ ~req[q].handlerRan
              /\ req[q].application = NoRow
        /\ (Protected(req[q]) /\ req[q].pc # "idle" /\ ~Truthy(req[q].apiKey)) =>
              /\ req[q].pc = "done"
              /\ req[q].status = 401
              /\ req[q].dbOps = 0
              /\ ~req[q].handlerRan

\* One request was refused 500 when its UPDATE failed, after its lookup had
\* found the record; another was refused 401 for want of a key.
C9_Witness ==
    \E q, p \in Slots :
        /\ req[q].error = "store" /\ req[q].dbOps = 2 /\ req[q].status = 500
        /\ Protected(req[p]) /\ req[p].pc = "done" /\ ~Truthy(req[p].apiKey)

(***************************************************************************)
(* Properties of the catalog loader                                        *)
(***************************************************************************)

\* The rows a complete load of the run's feed leaves in the table.
LoadedRows(r, table) ==
    [k \in 1..Len(Records(r)) |->
        [c \in ColumnNames(table) |->
            IF c \in Range(Headers(r))
            THEN InsertValues(Headers(r), Records(r)[k])[c]
            ELSE Null]]

\* The run's step that ends it with an error / with success.
Fails(p) == run[p].pc \notin {"failed", "idle"} /\ run'[p].pc = "failed"

Succeeds(p) == run[p].pc # "done" /\ run'[p].pc = "done"

\* C2: a refresh whose feed parses to zero records ends with the error
\* "No data found in CSV file", has executed no CREATE TABLE, TRUNCATE or
\* INSERT, and the step that fails it leaves the table as it was.
C2_EmptyFeedLeavesTable ==
    /\ [](\A p \in Runs : run[p].error = NoDataError => run[p].statements = 0)
    /\ [][\A p \in Runs :
            ( /\ run[p].pc = "read"
              /\ run'[p] # run[p]
              /\ tempFile # NoFile
              /\ Parse(Feed(tempFile)).ok
              /\ Len(Parse(Feed(tempFile)).records) = 0 )
            => /\ run'[p].pc = "failed"
               /\ run'[p].error = NoDataError
               /\ KEV_Catalog' = KEV_Catalog]_vars

\* A refresh has failed on an empty feed while the table holds rows.
C2_Witness ==
    \E p \in Runs :
        /\ run[p].error = NoDataError
        /\ KEV_Catalog.exists
        /\ Len(KEV_Catalog.rows) > 0

\* C3: when a refresh returns success, the table holds exactly the N rows
\* of its feed, the count query answers N, and recordCount is N.
C3_CountAfterRefresh ==
    [][\A p \in Runs :
          Succeeds(p) =>
            /\ run'[p].recordCount = Len(Records(run'[p]))
            /\ Len(KEV_Catalog'.rows) = Len(Records(run'[p]))
            /\ CountQuery(KEV_Catalog') = Len(Records(run'[p]))]_vars

\* C4: when a refresh fails and no other refresh is in progress, the table
\* is absent, or holds the rows it held when the refresh began, or holds
\* the complete load of the refresh's feed.
C4_NoPartialLoad ==
    [][\A p \in Runs :
          (Fails(p) /\ \A q \in Runs \ {p} : run[q].pc = "idle") =>
            \/ ~KEV_Catalog'.exists
            \/ /\ run[p].prior.exists
               /\ KEV_Catalog'.rows = run[p].prior.rows
            \/ /\ run[p].feed # NoFile
               /\ KEV_Catalog'.rows = LoadedRows(run[p], KEV_Catalog')]_vars

\* C5: when a refresh returns success, the table's columns (names, order
\* and types) are those derived from the header and first record of its
\* feed.
C5_SchemaFollowsFeed ==
    [][\A p \in Runs :
          Succeeds(p) =>
            KEV_Catalog'.columns =
                CreateTableColumns(Headers(run'[p]), Records(run'[p]))]_vars

\* C6: when two refreshes of the same feed have both returned success, the
\* table holds exactly the rows of that feed, none twice and none missing.
C6_RefreshesSerialized ==
    \A p, q \in Runs :
        ( /\ p # q
          /\ run[p].pc = "done"
          /\ run[q].pc = "done"
          /\ run[p].feed = run[q].feed )
        => KEV_Catalog.rows = LoadedRows(run[p], KEV_Catalog)

============================================================================
